---- MODULE Spec2Model ----
(***************************************************************************)
(* A model of apischema's validator registry and validation engine         *)
(* (apischema/validation/validators.py) and of the field/alias getters     *)
(* (apischema/objects/getters.py).                                         *)
(*                                                                         *)
(* Optional values (Python None) are modelled as sequences of length 0 or  *)
(* 1, or as the string None where the other values are strings.            *)
(***************************************************************************)
EXTENDS Integers, Sequences, FiniteSets, TLC

\* ------------------------------------------------------------------ bounds

\* The longest validator sequence a validate run draws from its iterable.
MaxValidators == 3

\* ------------------------------------------------------------ object types

None == "None"

\* The declared types: Base, Foo(Base), Bar(Foo), Model(Base) whose model origin
\* is Bar, and Alias, a type without __mro__ that is no object type.
Types == {"Base", "Foo", "Bar", "Model", "Alias"}

\* tp.__mro__ (most derived first); <<>> when tp has no __mro__ attribute.
Mro(tp) ==
  CASE tp = "Base" -> <<"Base">>
    [] tp = "Foo" -> <<"Foo", "Base">>
    [] tp = "Bar" -> <<"Bar", "Foo", "Base">>
    [] tp = "Model" -> <<"Model", "Base">>
    [] OTHER -> <<>>

\* hasattr(tp, "__mro__")
HasMro(tp) == Mro(tp) # <<>>

\* has_model_origin(tp)
has_model_origin(tp) == tp = "Model"

\* get_model_origin(tp)
get_model_origin(tp) == "Bar"

\* The internal field names of the model's object types, and their public alias.
Fields == {"a", "b"}

FieldAlias(n) == IF n = "a" THEN "A" ELSE "B"

FieldNames(tp) ==
  CASE tp = "Base" -> {"a"}
    [] tp = "Foo" -> {"a", "b"}
    [] tp = "Bar" -> {"a", "b"}
    [] tp = "Model" -> {"a", "b"}
    [] OTHER -> {}

IsObjectType(tp) == tp \in {"Base", "Foo", "Bar", "Model"}

\* object_fields(tp): the mapping name -> ObjectField, or TypeError for a type
\* the visitor does not support.
object_fields(tp) ==
  IF IsObjectType(tp)
    THEN [kind |-> "ok",
          fields |-> [n \in FieldNames(tp) |-> [name |-> n, alias |-> FieldAlias(n)]]]
    ELSE [kind |-> "TypeError", fields |-> [n \in {} |-> [name |-> n, alias |-> n]]]

\* ------------------------------------------------------------- error model

EmptyChildren == [k \in {} |-> <<>>]

\* ValidationError(messages, children)
ValidationError(messages, children) == [messages |-> messages, children |-> children]

RECURSIVE MergeErr(_, _)
\* The merge of two ValidationErrors: flat messages concatenated, children merged
\* key by key.
MergeErr(e1, e2) ==
  [messages |-> e1.messages \o e2.messages,
   children |->
     [k \in (DOMAIN e1.children) \cup (DOMAIN e2.children) |->
        IF k \in DOMAIN e1.children /\ k \in DOMAIN e2.children
          THEN MergeErr(e1.children[k], e2.children[k])
          ELSE IF k \in DOMAIN e1.children THEN e1.children[k] ELSE e2.children[k]]]

\* merge_errors(err1, err2) over optional errors: None is returned only when both
\* are None.
merge_errors(err1, err2) ==
  IF err1 = <<>> THEN err2
  ELSE IF err2 = <<>> THEN err1
  ELSE <<MergeErr(err1[1], err2[1])>>

\* ---------------------------------------------------------------- Validator

\* The signatures a check function can have: the instance alone, the instance
\* and a keyword parameter p, no parameter, **kwargs, *args, and a callable
\* whose signature cannot be read (signature() raises ValueError).
SigKinds == {"obj", "obj_p", "none", "var_keyword", "var_positional", "no_signature"}

\* list(parameters)[1:] of a signature
SigParams(sig) == IF sig = "obj_p" THEN {"p"} ELSE {}

\* A check function: its signature and the fields its body reads.
Funcs == [sig : SigKinds, reads : SUBSET Fields]

\* find_all_dependencies(owner, func): the fields of the instance the body of
\* func reads.
find_all_dependencies(owner, func) == func.reads

\* Mutant of NewValidator: the signature of func is not checked.
NewValidator_NoCheck(func, field, discard) ==
  [kind |-> "ok",
   v |-> [func |-> func,
          field |-> field,
          discard |-> IF field # None /\ discard = <<>> THEN <<{field}>> ELSE discard,
          dependencies |-> {},
          params |-> SigParams(func.sig),
          owner |-> None,
          registered |-> FALSE]]

\* Validator.__init__(func, field, discard): the new Validator, or TypeError.
\* field is a field name or None; discard is <<>> (None) or <<set of names>>.
NewValidator(func, field, discard) ==
  IF func.sig \in {"none", "var_keyword", "var_positional"}
    THEN [kind |-> "TypeError"]
    ELSE [kind |-> "ok",
          v |-> [func |-> func,
                 field |-> field,
                 discard |-> IF field # None /\ discard = <<>> THEN <<{field}>> ELSE discard,
                 dependencies |-> {},
                 params |-> SigParams(func.sig),
                 owner |-> None,
                 registered |-> FALSE]]

\* The state of a Validator after a first, successful _register(owner).
Registered(v, owner) ==
  [v EXCEPT !.owner = owner,
            !.dependencies = find_all_dependencies(owner, v.func) \cup v.params,
            !.registered = TRUE]

\* What a call ends with: kind is "return" or the exception raised; error is the
\* ValidationError carried (if any), fields the field set of a Discard, message
\* str() of any other exception.
Outcome(kind, error, fields, message) ==
  [kind |-> kind, error |-> error, fields |-> fields, message |-> message]

Returns == Outcome("return", <<>>, {}, "")

RaisesValidationError(err) == Outcome("ValidationError", <<err>>, {}, "")

RaisesException(message) == Outcome("Exception", <<>>, {}, message)

\* Mutant of FieldLayer: the error is keyed by the internal field name.
FieldLayer_InternalName(v, out) ==
  IF v.field = None \/ out.kind # "ValidationError" THEN out
  ELSE RaisesValidationError(ValidationError(<<>>, [k \in {v.field} |-> out.error[1]]))

\* The field layer of Validator.validate: a ValidationError of the check is
\* re-keyed under the alias of the target field in the owner type; the lookup
\* itself raises AttributeError (no owner yet), TypeError or KeyError when it fails.
FieldLayer(v, out) ==
  IF v.field = None \/ out.kind # "ValidationError" THEN out
  ELSE IF v.owner = None THEN RaisesException("AttributeError")
  ELSE LET of == object_fields(v.owner) IN
       IF of.kind = "TypeError" THEN RaisesException("TypeError")
       ELSE IF v.field \notin DOMAIN of.fields THEN RaisesException("KeyError")
       ELSE RaisesValidationError(
              ValidationError(<<>>, [k \in {of.fields[v.field].alias} |-> out.error[1]]))

\* if self.discard: the discard layer is installed
DiscardActive(v) == v.discard # <<>> /\ v.discard[1] # {}

\* The discard layer of Validator.validate: a ValidationError coming out of the
\* layers below is raised as Discard(discarded, err).
DiscardLayer(v, out) ==
  IF DiscardActive(v) /\ out.kind = "ValidationError"
    THEN Outcome("Discard", out.error, v.discard[1], "")
    ELSE out

\* validator.validate(obj, **kwargs) when the check function ends with out.
ValidatorValidate(v, out) == DiscardLayer(v, FieldLayer(v, out))

\* ----------------------------------------------------------------- registry

VARIABLES
  heap,        \* the Validator instances constructed so far, by identity 1..Len(heap)
  registry,    \* _validators: the dictionary from the types that are keys to the
               \* list of Validator identities under each
  pending,     \* the Validators that are attributes of a class body not yet finalized
  call         \* history: the last call of the registration API and how it ended

regvars == <<heap, registry, pending, call>>

\* ------------------------------------------------------------ validate (run)

VARIABLES
  kwargs,      \* the keyword names validate was called with
  pc,          \* "next": the for loop asks its iterator for the next validator;
               \* "filter": a filtering generator tests the validator drawn;
               \* "try": the loop body runs with it; "done": validate has ended
  pulled,      \* how many validators the iterable passed to validate has yielded
  gens,        \* how many filtering generators are wrapped around that iterator
  discarded,   \* the local variable discarded (unbound, here {}, before a Discard)
  error,       \* the local variable error: <<>> for None, else <<ValidationError>>
  validator,   \* the validator drawn: <<v>> while it is tested or executed
  result,      \* how validate ended: what it returned or raised
  last,        \* history: how the check function and the try block ended last
  pruned,      \* history: the union of the field sets of the Discards caught so far
  ndiscards,   \* history: how many Discards were caught so far
  nskipped,    \* history: how many validators the filtering generators dropped
  raised       \* history: the errors of the executed validators that failed, in order

runvars ==
  <<kwargs, pc, pulled, gens, discarded, error, validator, result, last, pruned,
    ndiscards, nskipped, raised>>

\* ------------------------------------------------------- field/alias getters

VARIABLES
  cached,      \* the types object_fields has a cached result for (@cache)
  getter,      \* the FieldGetter or AliasGetter constructed last: <<>> or <<g>>
  got          \* history: the last call of the getters module and how it ended

getvars == <<cached, getter, got>>

vars == <<runvars, regvars, getvars>>

\* How a call of the getters module ended: the function called, the type it was
\* called for, the attribute name looked up, "return" or the exception raised,
\* and <<the value returned>>.
Got(op, tp, name, kind, value) ==
  [op |-> op, tp |-> tp, name |-> name, kind |-> kind, value |-> value]

NoGot == Got("none", None, None, "none", <<>>)

\* Nothing of the getters module was called yet.
NoGetters == cached = {} /\ getter = <<>> /\ got = NoGot

ParamNames == {"p", "q"}

\* The keyword names a caller passes to validate.
KwargSets == SUBSET ParamNames

\* What a check function can end with: it returns, raises ValidationError (with
\* no message or with one), raises NonTrivialDependency, fails an assert, or raises any other exception.
CheckOutcomes ==
  {Returns}
    \cup {RaisesValidationError(ValidationError(ms, EmptyChildren)) :
            ms \in {<<>>, <<"m1">>}}
    \cup {Outcome("NonTrivialDependency", <<>>, {}, ""),
          Outcome("AssertionError", <<>>, {}, ""),
          RaisesException("x")}

\* The registered validators a validate run can meet in its iterable.
RunValidators ==
  {Registered(NewValidator(f, fld, d).v, "Foo") :
     f \in [sig : {"obj", "obj_p"}, reads : SUBSET Fields],
     fld \in {None, "a"},
     d \in {<<>>, <<{}>>, <<{"a"}>>, <<{"b"}>>}}

NoResult == [kind |-> "none", error |-> <<>>, validator |-> <<>>]

NotCalled == Outcome("not called", <<>>, {}, "")

NoLast == [check |-> NotCalled, try |-> NotCalled]

\* How a call of the registration API ended: the function called, what it
\* raised, whether the check function it was given had a signature
\* Validator.__init__ rejects, and whether the Validator it was to register was
\* registered already.
Called(op, raised_, bad, was) == [op |-> op, raised |-> raised_, bad |-> bad, was |-> was]

NoCall == Called("none", "none", FALSE, FALSE)

\* _validators = defaultdict(list) before any access: no key.
EmptyRegistry == [tp \in {} |-> <<>>]

\* The list _validators[tp] evaluates to: the list under tp, or the empty list
\* the defaultdict makes for a missing key.
Entry(reg, tp) == IF tp \in DOMAIN reg THEN reg[tp] ELSE <<>>

\* The dictionary after _validators[tp] was evaluated for every tp in tps: the
\* defaultdict has inserted an empty list under each missing key.
Touched(reg, tps) == [tp \in (DOMAIN reg) \cup tps |-> Entry(reg, tp)]

\* validate(obj, validators, **kwargs) up to line 145.
InitRun ==
  /\ kwargs \in KwargSets
  /\ pc = "next"
  /\ pulled = 0
  /\ gens = 0
  /\ discarded = {}
  /\ error = <<>>
  /\ validator = <<>>
  /\ result = NoResult
  /\ last = NoLast
  /\ pruned = {}
  /\ ndiscards = 0
  /\ nskipped = 0
  /\ raised = <<>>
  /\ heap = <<>>
  /\ registry = EmptyRegistry
  /\ pending = {}
  /\ call = NoCall
  /\ NoGetters

\* Mutant of Draw: the iterable yields a validator without moving forward.
Draw_Again(v) ==
  /\ pc = "next"
  /\ pulled < MaxValidators
  /\ validator' = <<v>>
  /\ pc' = IF gens > 0 THEN "filter" ELSE "try"
  /\ UNCHANGED <<kwargs, pulled, gens, discarded, error, result, last, pruned, ndiscards,
                 nskipped, raised>>
  /\ UNCHANGED regvars
  /\ UNCHANGED getvars

\* The iterable yields its next validator v: to the filtering generators if
\* there are any, else to the for loop.
Draw(v) ==
  /\ pc = "next"
  /\ pulled < MaxValidators
  /\ pulled' = pulled + 1
  /\ validator' = <<v>>
  /\ pc' = IF gens > 0 THEN "filter" ELSE "try"
  /\ UNCHANGED <<kwargs, gens, discarded, error, result, last, pruned, ndiscards, nskipped,
                 raised>>
  /\ UNCHANGED regvars
  /\ UNCHANGED getvars

\* Mutant of Passes: the generators filter nothing.
Passes_Nothing(v) == TRUE

\* The condition of the filtering generators, `not discarded & v.dependencies`:
\* every generator reads the variable discarded when it tests v, not the value
\* discarded had when the generator was created.
Passes(v) == discarded \cap v.dependencies = {}

\* The generators test the validator drawn: it reaches the for loop or is dropped.
Filter ==
  /\ pc = "filter"
  /\ IF Passes(validator[1])
       THEN pc' = "try" /\ UNCHANGED <<validator, nskipped>>
       ELSE pc' = "next" /\ validator' = <<>> /\ nskipped' = nskipped + 1
  /\ UNCHANGED <<kwargs, pulled, gens, discarded, error, result, last, pruned, ndiscards,
                 raised>>
  /\ UNCHANGED regvars
  /\ UNCHANGED getvars

\* Mutant of Dispatch: the validator is always called with all of kwargs.
Dispatch_AllKwargs(v) == [kind |-> "call", args |-> kwargs]

\* The keyword arguments validator.validate is called with (lines 149-155);
\* AssertionError when a parameter of the validator is missing from kwargs.
Dispatch(v) ==
  IF kwargs # {} /\ v.params # kwargs
    THEN IF v.params \subseteq kwargs
           THEN [kind |-> "call", args |-> v.params]
           ELSE [kind |-> "AssertionError", args |-> {}]
    ELSE [kind |-> "call", args |-> kwargs]

\* What the try block of validate ends with for validator v whose check function
\* would end with out.
TryBlock(v, out) ==
  IF Dispatch(v).kind = "AssertionError"
    THEN Outcome("AssertionError", <<>>, {}, "")
    ELSE ValidatorValidate(v, out)

\* The error validate records for what the try block ended with: <<>> if none.
Recorded(t) ==
  IF t.kind \in {"ValidationError", "Discard"} THEN t.error
  ELSE IF t.kind = "Exception" THEN <<ValidationError(<<t.message>>, EmptyChildren)>>
  ELSE <<>>

\* The try block runs for the validator drawn and ends with kind. The history
\* variables are written here, from what the try block ended with, whatever the
\* except clause then does.
Try(out, kind) ==
  /\ pc = "try"
  /\ TryBlock(validator[1], out).kind = kind
  /\ last' = [check |-> IF Dispatch(validator[1]).kind = "call" THEN out ELSE NotCalled,
              try |-> TryBlock(validator[1], out)]
  /\ raised' = raised \o Recorded(TryBlock(validator[1], out))
  /\ pruned' = pruned \cup TryBlock(validator[1], out).fields
  /\ ndiscards' = ndiscards + (IF kind = "Discard" THEN 1 ELSE 0)
  /\ validator' = <<>>
  /\ UNCHANGED <<kwargs, pulled, nskipped>>
  /\ UNCHANGED regvars
  /\ UNCHANGED getvars

\* validator.validate returns: next validator.
OnReturn(out) ==
  /\ Try(out, "return")
  /\ pc' = "next"
  /\ UNCHANGED <<gens, discarded, error, result>>

\* Mutant of OnValidationError: the new error replaces the accumulated one.
OnValidationError_Overwrite(out) ==
  /\ Try(out, "ValidationError")
  /\ error' = TryBlock(validator[1], out).error
  /\ pc' = "next"
  /\ UNCHANGED <<gens, discarded, result>>

\* except ValidationError as err
OnValidationError(out) ==
  /\ Try(out, "ValidationError")
  /\ error' = merge_errors(error, TryBlock(validator[1], out).error)
  /\ pc' = "next"
  /\ UNCHANGED <<gens, discarded, result>>

\* Mutant of OnDiscard: the Discard is not caught.
OnDiscard_Surfaces(out) ==
  /\ Try(out, "Discard")
  /\ pc' = "done"
  /\ result' = [kind |-> "Discard", error |-> TryBlock(validator[1], out).error,
                validator |-> <<>>]
  /\ UNCHANGED <<gens, discarded, error>>

\* except Discard as err: merge, rebind discarded, wrap the iterator in one more
\* filtering generator and restart the for loop on it.
OnDiscard(out) ==
  /\ Try(out, "Discard")
  /\ error' = merge_errors(error, TryBlock(validator[1], out).error)
  /\ discarded' = TryBlock(validator[1], out).fields
  /\ gens' = gens + 1
  /\ pc' = "next"
  /\ UNCHANGED result

\* Mutant of OnNonTrivialDependency: the signal is recorded like any other
\* exception and the loop goes on.
OnNonTrivialDependency_Collected(out) ==
  /\ Try(out, "NonTrivialDependency")
  /\ error' = merge_errors(error, <<ValidationError(<<"">>, EmptyChildren)>>)
  /\ pc' = "next"
  /\ UNCHANGED <<gens, discarded, result>>

\* except NonTrivialDependency as exc: exc.validator = validator; raise
OnNonTrivialDependency(out) ==
  /\ Try(out, "NonTrivialDependency")
  /\ pc' = "done"
  /\ result' = [kind |-> "NonTrivialDependency", error |-> <<>>, validator |-> validator]
  /\ UNCHANGED <<gens, discarded, error>>

\* except AssertionError: raise
OnAssertionError(out) ==
  /\ Try(out, "AssertionError")
  /\ pc' = "done"
  /\ result' = [kind |-> "AssertionError", error |-> <<>>, validator |-> <<>>]
  /\ UNCHANGED <<gens, discarded, error>>

\* Mutant of OnException: the exception is re-raised.
OnException_Propagates(out) ==
  /\ Try(out, "Exception")
  /\ pc' = "done"
  /\ result' = [kind |-> "Exception", error |-> <<>>, validator |-> <<>>]
  /\ UNCHANGED <<gens, discarded, error>>

\* except Exception as err: merge ValidationError([str(err)])
OnException(out) ==
  /\ Try(out, "Exception")
  /\ error' = merge_errors(error,
                 <<ValidationError(<<TryBlock(validator[1], out).message>>, EmptyChildren)>>)
  /\ pc' = "next"
  /\ UNCHANGED <<gens, discarded, result>>

\* Mutant of Exhausted: the while loop starts the for loop again on the
\* exhausted iterator instead of breaking.
Exhausted_Loops ==
  /\ pc = "next"
  /\ pc' = "next"
  /\ UNCHANGED <<kwargs, pulled, gens, discarded, error, validator, result, last, pruned,
                 ndiscards, nskipped, raised>>
  /\ UNCHANGED regvars
  /\ UNCHANGED getvars

\* The iterator is exhausted: the for loop ends through its else, the while loop
\* breaks, and validate raises error or returns the instance (lines 172-176).
Exhausted ==
  /\ pc = "next"
  /\ pc' = "done"
  /\ result' = IF error # <<>>
                 THEN [kind |-> "ValidationError", error |-> error, validator |-> <<>>]
                 ELSE [kind |-> "return", error |-> <<>>, validator |-> <<>>]
  /\ UNCHANGED <<kwargs, pulled, gens, discarded, error, validator, last, pruned,
                 ndiscards, nskipped, raised>>
  /\ UNCHANGED regvars
  /\ UNCHANGED getvars

NextRun ==
  \/ \E v \in RunValidators : Draw(v)
  \/ Filter
  \/ \E out \in CheckOutcomes : OnReturn(out)
  \/ \E out \in CheckOutcomes : OnValidationError(out)
  \/ \E out \in CheckOutcomes : OnDiscard(out)
  \/ \E out \in CheckOutcomes : OnNonTrivialDependency(out)
  \/ \E out \in CheckOutcomes : OnAssertionError(out)
  \/ \E out \in CheckOutcomes : OnException(out)
  \/ Exhausted

Spec == InitRun /\ [][NextRun]_vars

\* validate is one synchronous call: while it has not ended it takes its next
\* step (each check call returns or raises).
FairSpec == Spec /\ WF_vars(NextRun)

\* ------------------------------------------------------ registration (API)

\* The most Validator instances constructed.
MaxObjects == 2

Classes == {tp \in Types : HasMro(tp)}

\* The check functions declared to the registration API.
RegistryFuncs == [sig : {"obj", "none", "var_keyword", "var_positional"}, reads : {{"a"}}]

BadSigs == {"none", "var_keyword", "var_positional"}

\* The types a caller passes to a direct _register call.
RegisterOwners == {"Foo", "Alias"}

\* Where a check function is declared: a module-level function whose first
\* parameter is annotated with type hint (None: no annotation); a function in the
\* body of a class that does not exist yet (method_class gives None); a method of
\* the existing class cls.
Places ==
  [kind : {"function"}, hint : {None, "Foo", "Alias"}, cls : {None}]
    \cup [kind : {"class_body"}, hint : {None}, cls : {None}]
    \cup [kind : {"method"}, hint : {None}, cls : {"Bar"}]

\* The types get_validators is called with: a class with ancestors and a model
\* origin.
LookupTypes == {"Model"}

\* The owner argument of validator(...).
OwnerArgs == {None, "Base", "Model"}

\* Mutant of RegisterResult: the registered flag is not looked at.
RegisterResult_NoGuard(h, reg, id, owner) ==
  [heap |-> [h EXCEPT ![id].owner = owner,
                      ![id].dependencies =
                         find_all_dependencies(owner, h[id].func) \cup h[id].params,
                      ![id].registered = TRUE],
   registry |-> [Touched(reg, {owner}) EXCEPT ![owner] = Append(@, id)],
   raised |-> "none"]

\* Validator._register(owner) on instance id, from heap h and registry reg: the
\* heap and the registry after the call, and what the call raised.
RegisterResult(h, reg, id, owner) ==
  IF h[id].registered
    THEN [heap |-> [h EXCEPT ![id].owner = owner],
          registry |-> reg,
          raised |-> "RuntimeError"]
    ELSE [heap |-> [h EXCEPT ![id].owner = owner,
                             ![id].dependencies =
                                find_all_dependencies(owner, h[id].func) \cup h[id].params,
                             ![id].registered = TRUE],
          registry |-> [Touched(reg, {owner}) EXCEPT ![owner] = Append(@, id)],
          raised |-> "none"]

\* The owner validator() registers under (lines 197-210): a type, "deferred" when
\* the Validator is returned for the class body, or the exception raised.
ResolveOwner(func, place, owner) ==
  IF place.kind \in {"class_body", "method"} /\ place.cls = None
    THEN IF owner # None THEN "TypeError" ELSE "deferred"
  ELSE IF owner # None THEN owner
  ELSE IF place.kind = "method" THEN place.cls
  ELSE IF func.sig = "no_signature" \/ place.hint = None THEN "ValueError"
  ELSE place.hint

\* validator(func, field=field, discard=discard, owner=owner)
Declare(func, place, field, discard, owner) ==
  LET new == NewValidator(func, field, discard)
      id == Len(heap) + 1
      to == ResolveOwner(func, place, owner)
  IN
  /\ pc = "idle"
  /\ IF new.kind = "TypeError"
       THEN /\ call' = Called("validator", "TypeError", func.sig \in BadSigs, FALSE)
            /\ UNCHANGED <<heap, registry, pending>>
     ELSE IF to \in {"TypeError", "ValueError"}
       THEN /\ call' = Called("validator", to, func.sig \in BadSigs, FALSE)
            /\ UNCHANGED <<heap, registry, pending>>
     ELSE /\ Len(heap) < MaxObjects
          /\ call' = Called("validator", "none", func.sig \in BadSigs, FALSE)
          /\ IF to = "deferred"
               THEN /\ heap' = Append(heap, new.v)
                    /\ pending' = pending \cup {id}
                    /\ UNCHANGED registry
               ELSE /\ heap' = RegisterResult(Append(heap, new.v), registry, id, to).heap
                    /\ registry' = RegisterResult(Append(heap, new.v), registry, id, to).registry
                    /\ UNCHANGED pending
  /\ UNCHANGED runvars
  /\ UNCHANGED getvars

\* A direct call of the Validator instance id: id._register(owner)
Register(id, owner) ==
  /\ pc = "idle"
  /\ id \in 1..Len(heap)
  /\ heap' = RegisterResult(heap, registry, id, owner).heap
  /\ registry' = RegisterResult(heap, registry, id, owner).registry
  /\ call' = Called("_register", RegisterResult(heap, registry, id, owner).raised, FALSE,
                    heap[id].registered)
  /\ UNCHANGED pending
  /\ UNCHANGED runvars
  /\ UNCHANGED getvars

\* Mutant of SetName: the attribute is replaced but the Validator is not registered.
SetName_NoRegister(id, owner) ==
  /\ pc = "idle"
  /\ id \in pending
  /\ call' = Called("__set_name__", "none", FALSE, heap[id].registered)
  /\ pending' = pending \ {id}
  /\ UNCHANGED <<heap, registry>>
  /\ UNCHANGED runvars
  /\ UNCHANGED getvars

\* The class owner, whose body holds the Validator instance id, is created:
\* id.__set_name__(owner, name)
SetName(id, owner) ==
  /\ pc = "idle"
  /\ id \in pending
  /\ heap' = RegisterResult(heap, registry, id, owner).heap
  /\ registry' = RegisterResult(heap, registry, id, owner).registry
  /\ call' = Called("__set_name__", RegisterResult(heap, registry, id, owner).raised,
                    FALSE, heap[id].registered)
  /\ pending' = pending \ {id}
  /\ UNCHANGED runvars
  /\ UNCHANGED getvars

RECURSIVE Extend(_, _)
\* for sub_cls in mro: validators.extend(_validators[sub_cls])
Extend(reg, mro) ==
  IF mro = <<>> THEN <<>> ELSE Entry(reg, Head(mro)) \o Extend(reg, Tail(mro))

RECURSIVE get_validators_OriginFirst(_)
\* Mutant of get_validators: the validators of the model origin come first.
get_validators_OriginFirst(tp) ==
  (IF has_model_origin(tp) THEN get_validators_OriginFirst(get_model_origin(tp)) ELSE <<>>)
    \o (IF HasMro(tp) THEN Extend(registry, Mro(tp)) ELSE Entry(registry, tp))

RECURSIVE get_validators(_)
\* get_validators(tp): the list returned.
get_validators(tp) ==
  (IF HasMro(tp) THEN Extend(registry, Mro(tp)) ELSE Entry(registry, tp))
    \o (IF has_model_origin(tp) THEN get_validators(get_model_origin(tp)) ELSE <<>>)

RECURSIVE LookedUp(_)
\* The types tp for which get_validators(tp) evaluates _validators[tp].
LookedUp(tp) ==
  (IF HasMro(tp) THEN {Mro(tp)[i] : i \in DOMAIN Mro(tp)} ELSE {tp})
    \cup (IF has_model_origin(tp) THEN LookedUp(get_model_origin(tp)) ELSE {})

\* A call get_validators(tp), by a caller or by validate(obj) for an instance of
\* tp when it is given no validators (line 143): each _validators[...] it
\* evaluates inserts a missing key.
GetValidators(tp) ==
  /\ pc = "idle"
  /\ registry' = Touched(registry, LookedUp(tp))
  /\ call' = Called("get_validators", "none", FALSE, FALSE)
  /\ UNCHANGED <<heap, pending>>
  /\ UNCHANGED runvars
  /\ UNCHANGED getvars

\* The state in which declarations are processed and no validate call runs.
InitRegistry ==
  /\ kwargs = {}
  /\ pc = "idle"
  /\ pulled = 0
  /\ gens = 0
  /\ discarded = {}
  /\ error = <<>>
  /\ validator = <<>>
  /\ result = NoResult
  /\ last = NoLast
  /\ pruned = {}
  /\ ndiscards = 0
  /\ nskipped = 0
  /\ raised = <<>>
  /\ heap = <<>>
  /\ registry = EmptyRegistry
  /\ pending = {}
  /\ call = NoCall
  /\ NoGetters

NextRegistry ==
  \/ \E func \in RegistryFuncs, place \in Places, owner \in OwnerArgs :
       Declare(func, place, None, <<>>, owner)
  \/ \E id \in 1..MaxObjects, owner \in RegisterOwners : Register(id, owner)
  \/ \E id \in 1..MaxObjects, owner \in Classes : SetName(id, owner)
  \/ \E tp \in LookupTypes : GetValidators(tp)

SpecRegistry == InitRegistry /\ [][NextRegistry]_vars

\* ------------------------------------------------- get_field and get_alias

\* What get_field, get_alias and object_fields2 are called with: a type (whose
\* own class is type) or an instance of a class.
Objs ==
  [kind : {"type"}, tp : Types, class : {"type"}]
    \cup [kind : {"instance"}, tp : {None}, class : {"Base", "Foo"}]

\* The attribute names looked up on a getter.
AttrNames == {"a", "b", "c", "fields"}

\* object_fields2(obj): obj itself when it is a type, else its class.
object_fields2(obj) == object_fields(IF obj.kind = "type" THEN obj.tp ELSE obj.class)

\* The type object_fields2 resolves obj to.
TypeOf(obj) == IF obj.kind = "type" THEN obj.tp ELSE obj.class

\* Mutant of Getattribute: a missing name raises the KeyError of the mapping.
Getattribute_KeyError(g, name) ==
  IF name \in DOMAIN g.fields
    THEN [kind |-> "return",
          value |-> <<IF g.cls = "AliasGetter" THEN g.fields[name].alias ELSE g.fields[name]>>]
    ELSE [kind |-> "KeyError", value |-> <<>>]

\* FieldGetter.__getattribute__(name) and AliasGetter.__getattribute__(name):
\* every name is looked up in self.fields; KeyError becomes AttributeError.
Getattribute(g, name) ==
  IF name \in DOMAIN g.fields
    THEN [kind |-> "return",
          value |-> <<IF g.cls = "AliasGetter" THEN g.fields[name].alias ELSE g.fields[name]>>]
    ELSE [kind |-> "AttributeError", value |-> <<>>]

\* object_fields(tp), called directly: the result is cached unless it raised.
ObjectFields(tp) ==
  /\ got' = Got("object_fields", tp, None, object_fields(tp).kind,
                IF object_fields(tp).kind = "ok" THEN <<object_fields(tp).fields>> ELSE <<>>)
  /\ cached' = IF object_fields(tp).kind = "ok" THEN cached \cup {tp} ELSE cached
  /\ UNCHANGED getter
  /\ UNCHANGED <<runvars, regvars>>

\* get_field(obj) (cls = "FieldGetter") or get_alias(obj) (cls = "AliasGetter"):
\* the getter is constructed with self.fields = object_fields2(obj), or
\* TypeError is raised.
NewGetter(cls, obj) ==
  /\ IF object_fields2(obj).kind = "ok"
       THEN /\ getter' = <<[cls |-> cls, tp |-> TypeOf(obj), fields |-> object_fields2(obj).fields]>>
            /\ cached' = cached \cup {TypeOf(obj)}
            /\ got' = Got(cls, TypeOf(obj), None, "return", <<>>)
       ELSE /\ got' = Got(cls, TypeOf(obj), None, "TypeError", <<>>)
            /\ UNCHANGED <<getter, cached>>
  /\ UNCHANGED <<runvars, regvars>>

\* getter.name, for the getter constructed last.
GetAttr(name) ==
  /\ getter # <<>>
  /\ got' = Got("__getattribute__", getter[1].tp, name, Getattribute(getter[1], name).kind,
                Getattribute(getter[1], name).value)
  /\ UNCHANGED <<getter, cached>>
  /\ UNCHANGED <<runvars, regvars>>

NextGetters ==
  \/ \E tp \in Types : ObjectFields(tp)
  \/ \E cls \in {"FieldGetter", "AliasGetter"}, obj \in Objs : NewGetter(cls, obj)
  \/ \E name \in AttrNames : GetAttr(name)

SpecGetters == InitRegistry /\ [][NextGetters]_vars

\* ------------------------------------------------------- claims on validate

RECURSIVE MergeAll(_)
\* The merge of a sequence of errors, folded from the right; <<>> for none.
MergeAll(errs) ==
  IF errs = <<>> THEN <<>> ELSE merge_errors(<<Head(errs)>>, MergeAll(Tail(errs)))

Aborted == result.kind \in {"NonTrivialDependency", "AssertionError"}

\* C1: pruning is cumulative: a validator executed after a second Discard has no
\* dependency in the union of the field sets of the Discards before it.
C1_PruningIsCumulative ==
  (pc = "try" /\ ndiscards >= 2 /\ Dispatch(validator[1]).kind = "call")
    => validator[1].dependencies \cap pruned = {}

C3_NoFailFast ==
  (pc = "done" /\ ~Aborted)
    => /\ (result.kind = "return") <=> (raised = <<>>)
       /\ raised # <<>> => (result.kind = "ValidationError" /\ result.error = MergeAll(raised))

\* C3 witness: three validators failed, one of them through a Discard and one by
\* an exception that validate converted.
C3_Witness ==
  /\ pc = "done" /\ result.kind = "ValidationError" /\ Len(raised) = 3 /\ ndiscards = 1
  /\ \E i \in 1..3 : raised[i] = ValidationError(<<"x">>, EmptyChildren)

\* C4 as stated: an exception of any type other than ValidationError and
\* NonTrivialDependency raised by a check function never propagates out of validate.
C4_NoOtherExceptionPropagates ==
  (pc = "done" /\ last.check.kind \in {"Exception", "AssertionError"})
    => result.kind \in {"return", "ValidationError"}

\* C4 amended: an exception raised by a check function that is none of
\* ValidationError, Discard, NonTrivialDependency and AssertionError never
\* propagates: it is recorded as one flat message and the loop goes on.
C4_ExceptionIsCollected ==
  /\ [](last.check.kind = "Exception"
          => /\ result.kind \in {"none", "ValidationError"}
             /\ raised # <<>>
             /\ raised[Len(raised)] = ValidationError(<<last.check.message>>, EmptyChildren)
             /\ error = MergeAll(raised))
  /\ [][(pc = "try" /\ last'.check.kind = "Exception") => pc' = "next"]_vars

\* C4 witness: a check raised an exception first and a later validator's failure
\* was still collected.
C4_Witness ==
  /\ pc = "done" /\ result.kind = "ValidationError" /\ Len(raised) = 2
  /\ raised[1] = ValidationError(<<"x">>, EmptyChildren)
  /\ result.error[1].messages = <<"x", "m1">>

C6_NeverRaisesEmptyError ==
  result.kind = "ValidationError" => result.error # <<ValidationError(<<>>, EmptyChildren)>>

\* C10: validate ends by returning, or raising ValidationError,
\* NonTrivialDependency or AssertionError, never Discard, and the error carried by
\* every Discard is in the accumulated error.
C10_DiscardNeverSurfaces ==
  /\ result.kind \in {"none", "return", "ValidationError", "NonTrivialDependency",
                      "AssertionError"}
  /\ error = MergeAll(raised)
  /\ Len(raised) >= ndiscards
  /\ last.try.kind = "Discard"
       => (raised # <<>> /\ raised[Len(raised)] = last.try.error[1])

\* C10 witness: two Discards were caught and validate raised ValidationError.
C10_Witness ==
  /\ pc = "done" /\ ndiscards = 2 /\ result.kind = "ValidationError"
  /\ Len(raised) = 2

\* ------------------------------------------------- claims on the registry

\* Where the Validator instance id is in the registry: (type, index) pairs.
Positions(id) ==
  {p \in Types \X (1..MaxObjects + 2) :
     p[2] \in DOMAIN Entry(registry, p[1]) /\ Entry(registry, p[1])[p[2]] = id}

\* C7: every registered Validator instance is in the registry exactly once (an
\* unregistered one is not in it), and a _register call on a registered Validator
\* raises RuntimeError and appends nothing.
C7_RegisteredExactlyOnce ==
  /\ [](\A id \in 1..Len(heap) :
          Cardinality(Positions(id)) = IF heap[id].registered THEN 1 ELSE 0)
  /\ [](call.was => call.raised = "RuntimeError")
  /\ [][call'.raised = "RuntimeError" => registry' = registry]_vars

\* C7 witness: a second _register call on a registered Validator has failed.
C7_Witness ==
  /\ call.was /\ call.raised = "RuntimeError"
  /\ Len(heap) = 2 /\ \A id \in 1..2 : heap[id].registered

RECURSIVE Offset(_, _)
\* How many validators the first i - 1 classes of the MRO of tp have.
Offset(tp, i) ==
  IF i = 1 THEN 0 ELSE Offset(tp, i - 1) + Len(Entry(registry, Mro(tp)[i - 1]))

DirectLen(tp) ==
  IF HasMro(tp) THEN Offset(tp, Len(Mro(tp)) + 1) ELSE Len(Entry(registry, tp))

\* C8: get_validators(tp) holds the list of tp first, then the list of each
\* ancestor in method-resolution order, then get_validators of the model origin
\* of tp; each list is in the order of registration (lists only grow at the end).
C8_LookupOrder ==
  /\ [](\A tp \in Types :
          LET L == get_validators(tp) IN
          /\ HasMro(tp) =>
               \A i \in 1..Len(Mro(tp)) :
                 SubSeq(L, Offset(tp, i) + 1, Offset(tp, i) + Len(Entry(registry, Mro(tp)[i])))
                   = Entry(registry, Mro(tp)[i])
          /\ ~HasMro(tp) => SubSeq(L, 1, Len(Entry(registry, tp))) = Entry(registry, tp)
          /\ IF has_model_origin(tp)
               THEN /\ SubSeq(L, DirectLen(tp) + 1, Len(L))
                         = get_validators(get_model_origin(tp))
                    /\ Len(L) = DirectLen(tp) + Len(get_validators(get_model_origin(tp)))
               ELSE Len(L) = DirectLen(tp))
  /\ [][\A tp \in Types :
          Entry(registry', tp) # Entry(registry, tp)
            => \E id \in 1..MaxObjects + 1 :
                 Entry(registry', tp) = Append(Entry(registry, tp), id)]_vars

\* C8 witness: Model has a validator of its own and one inherited from Base, which
\* the model origin of Model contributes once more at the end.
C8_Witness ==
  /\ Len(Entry(registry, "Model")) = 1 /\ Len(Entry(registry, "Base")) = 1
  /\ get_validators("Model")
       = <<registry["Model"][1], registry["Base"][1], registry["Base"][1]>>

\* C9: a declaration whose check function has no parameter, a variadic-keyword
\* or a variadic-positional parameter raises TypeError and leaves the heap, the
\* registry and the pending class attributes as they were; no Validator
\* get_validators returns has such a check function.
C9_BadSignatureRejected ==
  /\ [](call.bad => call.raised = "TypeError")
  /\ [][call'.bad => (heap' = heap /\ registry' = registry /\ pending' = pending)]_vars
  /\ [](\A tp \in Types :
          \A i \in DOMAIN get_validators(tp) :
            /\ get_validators(tp)[i] \in 1..Len(heap)
            /\ heap[get_validators(tp)[i]].func.sig \notin BadSigs)

\* C9 witness: a declaration failed on its signature after two that succeeded.
C9_Witness ==
  /\ call.bad /\ call.raised = "TypeError"
  /\ Len(heap) = 2 /\ Entry(registry, "Foo") # <<>>

\* Whether the Validator instance id is in the list L.
InList(L, id) == \E i \in DOMAIN L : L[i] = id

\* C11: a Validator declared in a class body (and never passed to _register by
\* hand) has no owner and is in no registry list while it is a class attribute;
\* the __set_name__ call of the finalized class appends it once to the list of
\* that class, sets its owner, replaces the attribute, and get_validators of the
\* class holds it from then on.
C11_DeferredBinding ==
  /\ [](\A id \in pending :
          ~heap[id].registered => (heap[id].owner = None /\ Positions(id) = {}))
  /\ [][(call'.op = "__set_name__" /\ call'.raised = "none")
          => \E id \in pending, owner \in Classes :
               /\ id \notin pending'
               /\ ~heap[id].registered /\ heap'[id].registered
               /\ heap'[id].owner = owner
               /\ Entry(registry', owner) = Append(Entry(registry, owner), id)
               /\ \A tp \in Types \ {owner} : Entry(registry', tp) = Entry(registry, tp)
               /\ InList(get_validators(owner), id)']_vars
  /\ [][\A tp \in Types, id \in 1..MaxObjects :
          InList(get_validators(tp), id) => InList(get_validators(tp), id)']_vars

\* C11 witness: a class was finalized and its deferred Validator registered, next
\* to a Validator registered at its declaration.
C11_Witness ==
  /\ call.op = "__set_name__" /\ call.raised = "none" /\ ~call.was
  /\ pending = {} /\ Len(heap) = 2 /\ \A id \in 1..2 : Positions(id) # {}

\* C12: a call of get_validators leaves the registry as it was: the same types
\* are keys, mapped to the same lists.
C12_LookupLeavesRegistry ==
  [][call'.op = "get_validators" => registry' = registry]_vars

\* C13: a _register call on a Validator that is registered already raises
\* RuntimeError and leaves the owner, the dependencies and the registered flag of
\* every Validator as they were.
C13_OwnerSetOnce ==
  [][call'.was => (call'.raised = "RuntimeError" /\ heap' = heap)]_vars

\* C14: every failure that validate records for a validator with an active
\* discard set reaches validate as a Discard carrying that set, which then is the
\* set the remaining validators are filtered by.
C14_EveryFailureDiscards ==
  [][(pc = "try" /\ DiscardActive(validator[1]) /\ Recorded(last'.try) # <<>>)
       => /\ last'.try.kind = "Discard"
          /\ last'.try.fields = validator[1].discard[1]
          /\ discarded' = validator[1].discard[1]]_vars

\* Whether the sequence s is a prefix of the sequence t.
IsPrefix(s, t) == Len(s) <= Len(t) /\ SubSeq(t, 1, Len(s)) = s

\* C15: the validators are taken from the list in its order, one position at a
\* time; a position is handed to the try block at most once, when it is drawn or
\* right after the generators tested it; after the try block, also when it ended
\* with a Discard, the loop goes on with the successor; the errors recorded
\* stay recorded, in their order, and stay in the accumulated error.
C15_OrderAndUniqueness ==
  /\ [][pulled' \in {pulled, pulled + 1}]_vars
  /\ [][pc' = "filter" => (pc = "next" /\ pulled' = pulled + 1)]_vars
  /\ [][pc' = "try"
          => \/ pc = "next" /\ pulled' = pulled + 1 /\ validator' # <<>>
             \/ pc = "filter" /\ pulled' = pulled /\ validator' = validator]_vars
  /\ [][pc = "try"
          => (pulled' = pulled /\ validator' = <<>> /\ pc' \in {"next", "done"})]_vars
  /\ [][IsPrefix(raised, raised')]_vars
  /\ [](error = MergeAll(raised))

\* C15 witness: three positions were drawn; two validators ended with a Discard
\* and one was dropped by the generators.
C15_Witness ==
  /\ pc = "done" /\ pulled = 3 /\ ndiscards = 2 /\ nskipped = 1 /\ gens = 2
  /\ Len(raised) = 2

\* C16: with non-empty kwargs, a validator whose params are not the kwargs keys
\* is called with its params and nothing else, one whose params are the kwargs
\* keys with all of kwargs; when a param is missing from kwargs the check is not
\* called, nothing is recorded, and validate ends at once with AssertionError.
C16_KeywordDispatch ==
  /\ []((pc = "try" /\ kwargs # {})
          => LET v == validator[1] IN
             /\ (v.params # kwargs /\ v.params \subseteq kwargs)
                  => Dispatch(v) = [kind |-> "call", args |-> v.params]
             /\ v.params = kwargs => Dispatch(v) = [kind |-> "call", args |-> kwargs]
             /\ ~(v.params \subseteq kwargs) => Dispatch(v).kind = "AssertionError")
  /\ [][(pc = "try" /\ kwargs # {} /\ ~(validator[1].params \subseteq kwargs))
          => /\ last'.check = NotCalled
             /\ pc' = "done"
             /\ result' = [kind |-> "AssertionError", error |-> <<>>, validator |-> <<>>]
             /\ raised' = raised /\ error' = error /\ pulled' = pulled]_vars
  /\ [][pc = "done" => FALSE]_vars

\* C16 witness: validate(obj, validators, q=...) ended with AssertionError at a
\* validator with parameter p, after a failure was recorded and before the
\* iterable was exhausted.
C16_Witness ==
  /\ pc = "done" /\ kwargs = {"q"} /\ result.kind = "AssertionError"
  /\ last.check = NotCalled /\ last.try.kind = "AssertionError"
  /\ raised # <<>> /\ pulled = 2

\* C17: when the validator being executed raises NonTrivialDependency, validate
\* ends at once raising that signal with this validator attached: nothing is
\* merged, no ValidationError is raised whatever was accumulated, and no further
\* validator is drawn or executed.
C17_NonTrivialDependencyPropagates ==
  /\ [][(pc = "try" /\ last'.try.kind = "NonTrivialDependency")
          => /\ pc' = "done"
             /\ result' = [kind |-> "NonTrivialDependency", error |-> <<>>,
                           validator |-> validator]
             /\ error' = error /\ raised' = raised /\ pulled' = pulled]_vars
  /\ [](last.try.kind = "NonTrivialDependency"
          => (pc = "done" /\ result.kind = "NonTrivialDependency" /\ result.validator # <<>>))
  /\ [][pc = "done" => UNCHANGED vars]_vars

\* C17 witness: the second of the validators raised NonTrivialDependency after
\* the first had failed; the iterable had more to give.
C17_Witness ==
  /\ pc = "done" /\ result.kind = "NonTrivialDependency" /\ result.validator # <<>>
  /\ pulled = 2 /\ error # <<>> /\ Len(raised) = 1

\* What is left of a run: the positions not drawn yet, weighted, and the steps
\* left for the position drawn.
Remaining ==
  IF pc = "done" THEN 0
  ELSE 1 + 3 * (MaxValidators - pulled)
         + (CASE pc = "filter" -> 2 [] pc = "try" -> 1 [] OTHER -> 0)

\* C18: validate ends. Every step, a restart after a Discard included, leaves
\* less of the run than there was; the try block is entered once per position
\* drawn, so the validators executed and those the generators dropped are never
\* more than the positions drawn, which are never more than the sequence has.
C18_Terminates ==
  /\ <>(pc = "done")
  /\ [][Remaining' < Remaining]_vars
  /\ [][(pc' = "try" /\ pc = "next") => pulled' = pulled + 1]_vars
  /\ [][ndiscards' > ndiscards => (pc' = "next" /\ pulled' = pulled /\ gens' = gens + 1)]_vars
  /\ [](/\ pulled <= MaxValidators
         /\ Len(raised) + nskipped <= pulled
         /\ ndiscards <= pulled
         /\ gens = ndiscards)

\* C18 witness: the run ended after every position of the sequence was drawn and
\* every validator ended with a Discard.
C18_Witness ==
  pc = "done" /\ pulled = MaxValidators /\ ndiscards = MaxValidators

\* C19: the list get_validators returns for a type holds no Validator instance
\* twice.
C19_NoDuplicateValidator ==
  \A tp \in Types :
    \A i, j \in DOMAIN get_validators(tp) :
      i # j => get_validators(tp)[i] # get_validators(tp)[j]

\* C20: on a getter of object type T, looking up a field name n of T returns the
\* alias of n (get_alias) or the field record of n (get_field), looking up any
\* other name raises AttributeError; object_fields raises TypeError exactly for
\* a type that is no object type, and no getter exists for such a type.
C20_AliasLookupTotal ==
  /\ got.op = "__getattribute__"
       => /\ getter # <<>> /\ getter[1].tp = got.tp /\ IsObjectType(got.tp)
          /\ IF got.name \in FieldNames(got.tp)
               THEN /\ got.kind = "return"
                    /\ getter[1].cls = "AliasGetter" => got.value = <<FieldAlias(got.name)>>
                    /\ getter[1].cls = "FieldGetter"
                         => got.value = <<[name |-> got.name, alias |-> FieldAlias(got.name)]>>
               ELSE got.kind = "AttributeError" /\ got.value = <<>>
  /\ got.op = "object_fields"
       => /\ (got.kind = "TypeError") <=> ~IsObjectType(got.tp)
          /\ IsObjectType(got.tp) => (got.kind = "ok" /\ DOMAIN got.value[1] = FieldNames(got.tp))
  /\ got.op \in {"FieldGetter", "AliasGetter"}
       => (got.kind = "TypeError") <=> ~IsObjectType(got.tp)
  /\ getter # <<>> => IsObjectType(getter[1].tp)

\* C20 witness: get_alias of Base was asked for b, a field of Foo but not of Base.
C20_Witness ==
  /\ got.op = "__getattribute__" /\ got.tp = "Base" /\ got.name = "b"
  /\ got.kind = "AttributeError" /\ getter[1].cls = "AliasGetter"

====
